---- MODULE Spec2Model ----
(***************************************************************************)
(* Model of package twallet (src/main.go): the three remote operations     *)
(* CreateVCItem, CreateVCItemData and GetVCItemData, and the background    *)
(* goroutine that CreateVCItemData starts to poll for the activation id.   *)
(*                                                                         *)
(* The model is untimed.  Go bounds neither the delay between the go       *)
(* statement and the return of CreateVCItemData nor the delay between two  *)
(* steps of a goroutine, so the runtime ticker, the caller and the poller  *)
(* goroutine interleave freely.                                            *)
(***************************************************************************)
EXTENDS Integers, Sequences, FiniteSets, TLC

(***************************************************************************)
(* Bounds of the model.                                                    *)
(***************************************************************************)
\* number of distinct activation ids the service may hand out
MaxCid == 2
\* largest numeric instance id / template id
MaxId == 2
\* largest number of bytes after the signature of a cover image
MaxTail == 2
\* number of ticker periods the clock of SpecTimed runs for
MaxClockTicks == 62

(***************************************************************************)
(* Program constants.                                                      *)
(***************************************************************************)
\* timeout := 300 * time.Second (in seconds)
Timeout == 300
\* time.NewTicker(5 * time.Second), timeout -= 5 * time.Second
Interval == 5
StatusOK == 200
StatusCreated == 201

(***************************************************************************)
(* JSON values as the service sends them.  t is the JSON type, s the       *)
(* content of a string, n the value of a number.                           *)
(***************************************************************************)
JAbsent == [t |-> "absent", s |-> "", n |-> 0]
JNull == [t |-> "null", s |-> "", n |-> 0]
JStr(str) == [t |-> "str", s |-> str, n |-> 0]
JNum(num) == [t |-> "num", s |-> "", n |-> num]
\* the nested object {"k":"v"}
JObj == [t |-> "obj", s |-> "", n |-> 0]

\* The text of a JSON value on the wire (for a string, its content).
JsonText(v) ==
  CASE v.t = "str" -> v.s
    [] v.t = "num" -> ToString(v.n)
    [] v.t = "obj" -> "{\"k\":\"v\"}"
    [] v.t = "null" -> "null"
    [] OTHER -> ""

(***************************************************************************)
(* Go values produced by encoding/json when decoding into                  *)
(* map[string]interface{}: nil, string, float64 or a nested map.           *)
(***************************************************************************)
GoNil == [g |-> "nil", s |-> "", n |-> 0]

\* json.Unmarshal of one JSON value into interface{}
DecodeValue(v) ==
  CASE v.t = "str" -> [g |-> "string", s |-> v.s, n |-> 0]
    [] v.t = "num" -> [g |-> "float64", s |-> "", n |-> v.n]
    [] v.t = "obj" -> [g |-> "map", s |-> "", n |-> 0]
    [] OTHER -> GoNil

\* Response bodies: malformed bytes, a JSON array, the JSON literal null, or
\* a JSON object with the members the client looks at.
Body(shape, detail, vcCid, id) ==
  [shape |-> shape, detail |-> detail, vcCid |-> vcCid, id |-> id]

\* (variant: the error of the decoder is ignored)
DecodeMapOkAlways(body) == TRUE

\* json decoding into map[string]interface{}: fails on malformed bytes and
\* on a JSON array; the literal null decodes to the nil map.
DecodeMapOk(body) == body.shape \in {"null", "object"}

\* responseBody[key] on the decoded map (nil for a missing key, for a null
\* member and for every key of the nil map)
Lookup(body, key) ==
  IF body.shape = "object"
    THEN DecodeValue(CASE key = "detail" -> body.detail
                       [] key = "vcCid" -> body.vcCid
                       [] key = "id" -> body.id
                       [] OTHER -> JAbsent)
    ELSE GoNil

(***************************************************************************)
(* fmt's %v verb.                                                          *)
(***************************************************************************)
RECURSIVE StripZeros(_)
StripZeros(n) == IF n > 0 /\ n % 10 = 0 THEN StripZeros(n \div 10) ELSE n

RECURSIVE NumDigits(_)
NumDigits(n) == IF n < 10 THEN 1 ELSE 1 + NumDigits(n \div 10)

RECURSIVE Pow10(_)
Pow10(k) == IF k = 0 THEN 1 ELSE 10 * Pow10(k - 1)

\* the k low decimal digits of n, zero padded
RECURSIVE Digits(_, _)
Digits(n, k) == IF k = 0 THEN "" ELSE Digits(n \div 10, k - 1) \o ToString(n % 10)

\* %v of a non-negative integral float64: fmt formats it with strconv's
\* shortest 'g' format, which uses %e as soon as the decimal exponent is 6
\* or more (eprec = 6 when the precision is the shortest one), with an
\* exponent of at least two digits.
FormatFloat(n) ==
  LET exp == NumDigits(n) - 1
      m == StripZeros(n)
      k == NumDigits(m) - 1
  IN IF exp < 6
       THEN ToString(n)
       ELSE ToString(m \div Pow10(k))
            \o (IF k > 0 THEN "." \o Digits(m % Pow10(k), k) ELSE "")
            \o "e+" \o (IF exp < 10 THEN "0" ELSE "") \o ToString(exp)

\* (variant: the verb is %s, which prints only strings as they are)
SprintS(x) ==
  CASE x.g = "nil" -> "%!s(<nil>)"
    [] x.g = "string" -> x.s
    [] x.g = "float64" -> "%!s(float64=" \o FormatFloat(x.n) \o ")"
    [] x.g = "map" -> "map[k:v]"

SprintV(x) ==
  CASE x.g = "nil" -> "<nil>"
    [] x.g = "string" -> x.s
    [] x.g = "float64" -> FormatFloat(x.n)
    [] x.g = "map" -> "map[k:v]"

\* fmt.Errorf(prefix + "%v", arg): the message as its literal part followed
\* by the expansion of the verb
Errorf(prefix, arg) == <<prefix, arg>>

\* the message has text as one of its parts
Contains(msg, text) == \E i \in DOMAIN msg : msg[i] = text

NoMsg == <<>>

(***************************************************************************)
(* What http.DefaultClient.Do gives back: a transport error, or a status   *)
(* code and a body.                                                        *)
(***************************************************************************)
NetError == [net |-> "error", status |-> 0, body |-> Body("invalid", JAbsent, JAbsent, JAbsent)]
HttpResponse(status, body) == [net |-> "ok", status |-> status, body |-> body]

\* (variant: the error reads a member the service does not send)
StatusErrorArgMessage(body) == Lookup(body, "message")

\* the argument of the "unexpected response code: %v" error
StatusErrorArg(body) == Lookup(body, "detail")

StatusError(body) == Errorf("unexpected response code: ", SprintV(StatusErrorArg(body)))

(***************************************************************************)
(* The cover of CreateVCItem (lines 77-87).  A cover is nil or a sequence  *)
(* of bytes.                                                               *)
(***************************************************************************)
NilCover == [nil |-> TRUE, bytes |-> <<>>]
Cover(bytes) == [nil |-> FALSE, bytes |-> bytes]

HasPrefix(data, sig) ==
  Len(data) >= Len(sig) /\ \A i \in 1..Len(sig) : data[i] = sig[i]

\* the signatures of net/http's sniffer that the model knows
JpegSig == <<255, 216, 255>>
PngSig == <<137, 80, 78, 71, 13, 10, 26, 10>>
Gif89Sig == <<71, 73, 70, 56, 57, 97>>
BmpSig == <<66, 77>>

\* the bytes the sniffer takes for binary data
BinaryBytes == (0..8) \cup {11} \cup (14..26) \cup (28..31)

\* http.DetectContentType: the first matching signature, then text/plain
\* for data without binary bytes, else application/octet-stream
DetectContentType(data) ==
  IF HasPrefix(data, BmpSig) THEN "image/bmp"
  ELSE IF HasPrefix(data, Gif89Sig) THEN "image/gif"
  ELSE IF HasPrefix(data, PngSig) THEN "image/png"
  ELSE IF HasPrefix(data, JpegSig) THEN "image/jpeg"
  ELSE IF \A i \in 1..Len(data) : data[i] \notin BinaryBytes THEN "text/plain; charset=utf-8"
  ELSE "application/octet-stream"

\* the alphabet of base64.StdEncoding
Base64Alphabet ==
  <<"A", "B", "C", "D", "E", "F", "G", "H", "I", "J", "K", "L", "M",
    "N", "O", "P", "Q", "R", "S", "T", "U", "V", "W", "X", "Y", "Z",
    "a", "b", "c", "d", "e", "f", "g", "h", "i", "j", "k", "l", "m",
    "n", "o", "p", "q", "r", "s", "t", "u", "v", "w", "x", "y", "z",
    "0", "1", "2", "3", "4", "5", "6", "7", "8", "9", "+", "/">>

Base64Char(sextet) == Base64Alphabet[sextet + 1]

\* base64.StdEncoding.EncodeToString, as the sequence of its characters:
\* three bytes give four characters, a rest of one or two bytes is padded
\* with "="
RECURSIVE EncodeToString(_)
EncodeToString(b) ==
  IF Len(b) = 0 THEN <<>>
  ELSE IF Len(b) = 1
    THEN <<Base64Char(b[1] \div 4), Base64Char((b[1] % 4) * 16), "=", "=">>
  ELSE IF Len(b) = 2
    THEN <<Base64Char(b[1] \div 4),
           Base64Char((b[1] % 4) * 16 + b[2] \div 16),
           Base64Char((b[2] % 16) * 4), "=">>
  ELSE <<Base64Char(b[1] \div 4),
         Base64Char((b[1] % 4) * 16 + b[2] \div 16),
         Base64Char((b[2] % 16) * 4 + b[3] \div 64),
         Base64Char(b[3] % 64)>>
       \o EncodeToString(SubSeq(b, 4, Len(b)))

\* (variant: gif covers are let through as well)
CoverAcceptedWithGif(mimeType) == mimeType \in {"image/jpeg", "image/png", "image/gif"}

\* if mimeType == "image/jpeg" ... else if mimeType == "image/png"
CoverAccepted(mimeType) == mimeType \in {"image/jpeg", "image/png"}

NoCoverKey == [present |-> FALSE, prefix |-> "", data |-> <<>>]

\* requestPayload["cover"]: the key is set for a cover that is not nil and
\* sniffs as jpeg or png, to "data:<type>;base64," and the encoded bytes
CoverPayload(cover) ==
  IF cover.nil \/ ~CoverAccepted(DetectContentType(cover.bytes))
    THEN NoCoverKey
    ELSE [present |-> TRUE,
          prefix |-> "data:" \o DetectContentType(cover.bytes) \o ";base64,",
          data |-> EncodeToString(cover.bytes)]

(***************************************************************************)
(* CreateVCItem, from the reply of the service on (lines 102-117).         *)
(***************************************************************************)
CreateVCItem(resp) ==
  IF resp.net = "error"
    THEN [kind |-> "err", msg |-> Errorf("failed to send request: ", "transport")]
  ELSE IF ~DecodeMapOk(resp.body)
    THEN [kind |-> "err", msg |-> Errorf("failed to decode response body: ", "json")]
  ELSE IF resp.status # StatusCreated
    THEN [kind |-> "err", msg |-> StatusError(resp.body)]
  ELSE [kind |-> "ok", msg |-> NoMsg]

(***************************************************************************)
(* GetVCItemData (lines 220-249).  kind "panic" is the run-time panic of   *)
(* the unchecked type assertion responseBody["vcCid"].(string).            *)
(***************************************************************************)
\* (variant: the nil check of line 244 is missing)
VcCidNeverMissing(v) == FALSE

\* if vccid := responseBody["vcCid"]; vccid == nil
VcCidMissing(v) == v.g = "nil"

GetVCItemData(resp) ==
  IF resp.net = "error"
    THEN [kind |-> "err", value |-> "", msg |-> Errorf("failed to send request: ", "transport")]
  ELSE IF ~DecodeMapOk(resp.body)
    THEN [kind |-> "err", value |-> "", msg |-> Errorf("failed to decode response body: ", "json")]
  ELSE IF resp.status # StatusOK
    THEN [kind |-> "err", value |-> "", msg |-> StatusError(resp.body)]
  ELSE IF VcCidMissing(Lookup(resp.body, "vcCid"))
    THEN [kind |-> "ok", value |-> "", msg |-> NoMsg]
  ELSE IF Lookup(resp.body, "vcCid").g # "string"
    THEN [kind |-> "panic", value |-> "", msg |-> NoMsg]
  ELSE [kind |-> "ok", value |-> Lookup(resp.body, "vcCid").s, msg |-> NoMsg]

(***************************************************************************)
(* The synchronous part of CreateVCItemData (lines 131-173): the result    *)
(* the caller gets, with the ID of the decoded VCItemDataResponse.         *)
(***************************************************************************)
\* json.Unmarshal into VCItemDataResponse: ID is an int, so a string or an
\* object under "id" is a type error; a missing or null member and the
\* literal null leave the zero value.
TypedDecodeOk(body) ==
  body.shape = "null" \/ (body.shape = "object" /\ body.id.t \in {"absent", "null", "num"})

RecordID(body) ==
  IF body.shape = "object" /\ body.id.t = "num" THEN body.id.n ELSE 0

CreateVCItemDataResult(resp) ==
  IF resp.net = "error"
    THEN [kind |-> "err", id |-> 0, msg |-> Errorf("failed to send request: ", "transport")]
  ELSE IF ~DecodeMapOk(resp.body)
    THEN [kind |-> "err", id |-> 0, msg |-> Errorf("failed to unmarshal response body: ", "json")]
  ELSE IF resp.status # StatusCreated
    THEN [kind |-> "err", id |-> 0, msg |-> StatusError(resp.body)]
  ELSE IF ~TypedDecodeOk(resp.body)
    THEN [kind |-> "err", id |-> 0, msg |-> Errorf("failed to unmarshal response body: ", "json type")]
  ELSE [kind |-> "ok", id |-> RecordID(resp.body), msg |-> NoMsg]

\* (variant: the poller is started without looking at completion)
StartsPollerIgnoringNil(result, completionNil) == result.kind = "ok"

\* if completion != nil { ... go func() ... }
StartsPoller(result, completionNil) == result.kind = "ok" /\ ~completionNil

(***************************************************************************)
(* State.                                                                  *)
(***************************************************************************)
VARIABLES
  callerPc,      \* the caller of CreateVCItemData: "idle", "spawned" (after the go statement), "returned"
  completionNil, \* the completion argument is nil
  callResp,      \* the reply of the service to the POST of CreateVCItemData
  vcID,          \* the vcID argument (the template)
  recordID,      \* vcItemDataResponse.ID
  ret,           \* what CreateVCItemData returned
  pollerPc,      \* the goroutine: "none", "select", "fetching", "sendDone", "returned", "panicked"
  state,         \* the session: "None", "Running", "Activated", "TimedOut", "Failed"
  timeout,       \* the remaining budget, in seconds
  tickerStopped, \* ticker.Stop() has run
  tickPending,   \* ticks buffered in ticker.C (capacity 1)
  serverCid,     \* the vcCid of the instance on the service, "" until the holder scans
  fetches,       \* GetVCItemData calls made by the goroutine
  emptyFetches,  \* those that returned "" and no error
  fetchErrors,   \* those that returned an error
  fetchIds,      \* the ids they asked for
  lastCid,       \* the last non-empty vcCid a GetVCItemData call returned
  callbacks,     \* the arguments of the completion calls, in order
  op,            \* a direct call of one operation: its name,
  opResp,        \* the reply of the service,
  opResult,      \* and its result
  opCover,       \* the cover argument of a direct call of CreateVCItem
  opPayload,     \* requestPayload["cover"] of the request it sent
  now,           \* seconds since time.NewTicker (it stands still where time is not modelled)
  fetchAt,       \* the value of now when the last GetVCItemData call started
  sess,          \* two calls of CreateVCItemData side by side: the locals of each call and of its goroutine
  cidOf,         \* the vcCid of each instance on the service, "" until it is scanned
  crashed        \* a goroutine of the two calls has panicked

\* the calls of CreateVCItemData that run side by side in SpecTwo
Sessions == {1, 2}

\* the locals of a call that has not been made
NoSession ==
  [pc |-> "none", state |-> "None", timeout |-> 0, stopped |-> FALSE,
   id |-> 0, template |-> 0, asking |-> 0, asked |-> {}, callbacks |-> <<>>]

pollVars == <<pollerPc, state, timeout, tickPending, fetches, emptyFetches,
              fetchErrors, fetchIds, lastCid, callbacks>>
callVars == <<callerPc, completionNil, callResp, vcID, recordID, ret>>
opVars == <<op, opResp, opResult, opCover, opPayload>>
timeVars == <<now, fetchAt>>
twoVars == <<sess, cidOf, crashed>>
vars == <<callVars, pollVars, tickerStopped, serverCid, opVars, timeVars, twoVars>>

CidName(i) == "cid" \o ToString(i)
Cids == {CidName(i) : i \in 1..MaxCid}
Ids == 0..MaxId

Details == {JAbsent, JNull, JStr("card not found"), JNum(404), JNum(1200000), JObj}
\* the status codes the service answers with: the two successes and a refusal
Statuses == {StatusOK, StatusCreated, 400}

NoResult == [kind |-> "none", id |-> 0, msg |-> NoMsg]
NoResp == HttpResponse(0, Body("invalid", JAbsent, JAbsent, JAbsent))

\* replies to POST /api/vc-item-data
CreateResponses ==
  {NetError}
  \cup {HttpResponse(st, Body(sh, JAbsent, JAbsent, JAbsent)) :
          st \in Statuses, sh \in {"invalid", "array", "null"}}
  \cup {HttpResponse(StatusCreated, Body("object", JAbsent, JNull, id)) :
          id \in {JNum(i) : i \in Ids} \cup {JAbsent, JNull, JStr("7"), JObj}}
  \cup {HttpResponse(st, Body("object", d, JAbsent, JAbsent)) :
          st \in Statuses \ {StatusCreated}, d \in Details}

\* replies to GET /api/vc-item-data/<id> while the instance's vcCid is cid:
\* a failure of some kind, or 200 with the vcCid (absent, null, empty or the
\* body null while there is none), or 200 with a vcCid that is no string
FetchResponses(cid) ==
  {NetError}
  \cup {HttpResponse(StatusOK, Body(sh, JAbsent, JAbsent, JAbsent)) :
          sh \in {"invalid", "array"} \cup (IF cid = "" THEN {"null"} ELSE {})}
  \cup {HttpResponse(StatusOK, Body("object", JAbsent, c, JAbsent)) :
          c \in (IF cid = "" THEN {JAbsent, JNull, JStr("")} ELSE {JStr(cid)})
                \cup {JNum(1), JObj}}
  \cup {HttpResponse(400, Body("object", d, JAbsent, JAbsent)) :
          d \in Details}

Init ==
  /\ callerPc = "idle"
  /\ completionNil = TRUE
  /\ callResp = NoResp
  /\ vcID = 0
  /\ recordID = 0
  /\ ret = NoResult
  /\ pollerPc = "none"
  /\ state = "None"
  /\ timeout = 0
  /\ tickerStopped = FALSE
  /\ tickPending = 0
  /\ serverCid = ""
  /\ fetches = 0
  /\ emptyFetches = 0
  /\ fetchErrors = 0
  /\ fetchIds = {}
  /\ lastCid = ""
  /\ callbacks = <<>>
  /\ op = "none"
  /\ opResp = NoResp
  /\ opResult = NoResult
  /\ opCover = NilCover
  /\ opPayload = NoCoverKey
  /\ now = 0
  /\ fetchAt = 0
  /\ sess = [i \in Sessions |-> NoSession]
  /\ cidOf = [k \in Sessions |-> ""]
  /\ crashed = FALSE

Crashed == pollerPc = "panicked"

\* the goroutine exists and the process is alive
PollerRunning == pollerPc # "none" /\ ~Crashed

(***************************************************************************)
(* CreateVCItemData up to and including the go statement (lines 129-209).  *)
(* Without a poller the call returns in the same step.                     *)
(***************************************************************************)
CallCreate ==
  /\ callerPc = "idle"
  /\ op = "none"
  /\ \E resp \in CreateResponses, cn \in BOOLEAN, v \in 1..MaxId :
       LET r == CreateVCItemDataResult(resp) IN
         /\ completionNil' = cn
         /\ callResp' = resp
         /\ vcID' = v
         /\ recordID' = r.id
         /\ IF StartsPoller(r, cn)
              THEN /\ callerPc' = "spawned"
                   /\ ret' = ret
                   /\ timeout' = Timeout
                   /\ pollerPc' = "select"
                   /\ state' = "Running"
              ELSE /\ callerPc' = "returned"
                   /\ ret' = r
                   /\ UNCHANGED <<timeout, pollerPc, state>>
  /\ UNCHANGED <<tickerStopped, tickPending, serverCid, fetches, emptyFetches,
                 fetchErrors, fetchIds, lastCid, callbacks, opVars, timeVars, twoVars>>

(***************************************************************************)
(* return &vcItemDataResponse, nil (line 211) with the deferred            *)
(* ticker.Stop() of line 177, which runs when CreateVCItemData returns.    *)
(***************************************************************************)
StopsTickerOnReturn == TRUE

Return ==
  /\ callerPc = "spawned"
  /\ ~Crashed
  /\ callerPc' = "returned"
  /\ ret' = [kind |-> "ok", id |-> recordID, msg |-> NoMsg]
  /\ tickerStopped' = StopsTickerOnReturn
  /\ UNCHANGED <<completionNil, callResp, vcID, recordID, pollVars, serverCid, opVars, timeVars, twoVars>>

(***************************************************************************)
(* The runtime timer of time.NewTicker (line 176): every interval it puts  *)
(* a tick in ticker.C unless one is still buffered, until Stop.            *)
(***************************************************************************)
Tick ==
  /\ pollerPc # "none"
  /\ ~Crashed
  /\ ~tickerStopped
  /\ tickPending = 0
  /\ tickPending' = 1
  /\ UNCHANGED <<callVars, pollerPc, state, timeout, fetches, emptyFetches,
                 fetchErrors, fetchIds, lastCid, callbacks, tickerStopped,
                 serverCid, opVars, timeVars, twoVars>>

(***************************************************************************)
(* The holder scans the QR code: the instance gets its vcCid, once.        *)
(***************************************************************************)
Scan ==
  /\ pollerPc # "none"
  /\ ~Crashed
  /\ serverCid = ""
  /\ serverCid' \in Cids
  /\ UNCHANGED <<callVars, pollVars, tickerStopped, opVars, timeVars, twoVars>>

(***************************************************************************)
(* case <-ticker.C (lines 184-194): the budget check, the decrement and    *)
(* the start of the GetVCItemData call.                                    *)
(***************************************************************************)
\* (variant: the check lets the tick at budget 0 through)
BudgetExhaustedLate(t) == t < 0

\* if timeout <= 0
BudgetExhausted(t) == t <= 0

\* (variant: the poller asks for the vcID argument of the call)
PollTargetIdTemplate(rec, template) == template

\* GetVCItemData(accessToken, vcItemDataResponse.ID)
PollTargetId(rec, template) == rec

\* return after slog.Error("CreateVCItemData", "timeout", timeout)
PcAfterTimeout == "returned"

PollTick ==
  /\ pollerPc = "select"
  /\ tickPending = 1
  /\ tickPending' = 0
  /\ IF BudgetExhausted(timeout)
       THEN /\ state' = "TimedOut"
            /\ pollerPc' = PcAfterTimeout
            /\ UNCHANGED <<timeout, fetches, fetchIds, fetchAt>>
       ELSE /\ timeout' = timeout - Interval
            /\ pollerPc' = "fetching"
            /\ fetches' = fetches + 1
            /\ fetchIds' = fetchIds \cup {PollTargetId(recordID, vcID)}
            /\ fetchAt' = now
            /\ state' = state
  /\ UNCHANGED <<callVars, emptyFetches, fetchErrors, lastCid, callbacks,
                 tickerStopped, serverCid, opVars, now, twoVars>>

(***************************************************************************)
(* GetVCItemData returns to the goroutine (lines 194-205).  After an error *)
(* or an activation the goroutine sends on done, an unbuffered channel     *)
(* that only the goroutine itself receives from: pc "sendDone" has no      *)
(* successor.                                                              *)
(***************************************************************************)
\* (variant: the loop goes on after a failed fetch)
PcAfterErrorRetry == "select"

\* done <- true; return after slog.Error("GetVCItemData", ...)
PcAfterError == "sendDone"

\* (variant: the loop goes on after the completion call)
PcAfterCompletionContinue == "select"

\* done <- true; return after completion(vcCid)
PcAfterCompletion == "sendDone"

\* (variant: the callback gets the VcCid of the created record, which is
\* empty at creation, instead of the fetched one)
CompletionArgFromRecord(vcCid) == ""

\* completion(vcCid)
CompletionArg(vcCid) == vcCid

FetchReturn ==
  /\ pollerPc = "fetching"
  /\ \E resp \in FetchResponses(serverCid) :
       LET r == GetVCItemData(resp) IN
         CASE r.kind = "panic" ->
                /\ pollerPc' = "panicked"
                /\ UNCHANGED <<state, emptyFetches, fetchErrors, lastCid, callbacks>>
           [] r.kind = "err" ->
                /\ pollerPc' = PcAfterError
                /\ state' = "Failed"
                /\ fetchErrors' = fetchErrors + 1
                /\ UNCHANGED <<emptyFetches, lastCid, callbacks>>
           [] r.kind = "ok" /\ r.value = "" ->
                /\ pollerPc' = "select"
                /\ emptyFetches' = emptyFetches + 1
                /\ UNCHANGED <<state, fetchErrors, lastCid, callbacks>>
           [] r.kind = "ok" /\ r.value # "" ->
                /\ pollerPc' = PcAfterCompletion
                /\ state' = "Activated"
                /\ lastCid' = r.value
                /\ callbacks' = Append(callbacks, CompletionArg(r.value))
                /\ UNCHANGED <<emptyFetches, fetchErrors>>
  /\ UNCHANGED <<callVars, timeout, tickPending, fetches, fetchIds,
                 tickerStopped, serverCid, opVars, timeVars, twoVars>>

Next == CallCreate \/ Return \/ Tick \/ Scan \/ PollTick \/ FetchReturn

Spec == Init /\ [][Next]_vars

\* The caller runs on to its return statement, the runtime delivers the
\* ticks of a ticker that is not stopped, a goroutine that can take a step
\* takes it, and every HTTP exchange ends.
FairSpec ==
  /\ Spec
  /\ WF_vars(Return)
  /\ WF_vars(Tick)
  /\ WF_vars(PollTick)
  /\ WF_vars(FetchReturn)

(***************************************************************************)
(* The session with a clock.  One period of the ticker passes: the runtime *)
(* puts a tick in ticker.C unless the ticker is stopped; a tick that finds *)
(* the buffer full is dropped.  A GetVCItemData call in flight and the     *)
(* caller before its return may let any number of periods pass.  The       *)
(* clock is followed while the session is Running.                         *)
(***************************************************************************)
\* the state right after CallCreate on the reply 201 {"id": 1, "vcCid": null}
\* with a completion callback
InitTimed ==
  /\ callerPc = "spawned"
  /\ completionNil = FALSE
  /\ callResp = HttpResponse(StatusCreated, Body("object", JAbsent, JNull, JNum(1)))
  /\ vcID = 1
  /\ recordID = 1
  /\ ret = NoResult
  /\ pollerPc = "select"
  /\ state = "Running"
  /\ timeout = Timeout
  /\ tickerStopped = FALSE
  /\ tickPending = 0
  /\ serverCid = ""
  /\ fetches = 0
  /\ emptyFetches = 0
  /\ fetchErrors = 0
  /\ fetchIds = {}
  /\ lastCid = ""
  /\ callbacks = <<>>
  /\ op = "none"
  /\ opResp = NoResp
  /\ opResult = NoResult
  /\ opCover = NilCover
  /\ opPayload = NoCoverKey
  /\ now = 0
  /\ fetchAt = 0
  /\ sess = [i \in Sessions |-> NoSession]
  /\ cidOf = [k \in Sessions |-> ""]
  /\ crashed = FALSE

AdvanceTime ==
  /\ PollerRunning
  /\ state = "Running"
  /\ now < MaxClockTicks * Interval
  /\ now' = now + Interval
  /\ tickPending' = (IF tickerStopped THEN tickPending ELSE 1)
  /\ UNCHANGED <<callVars, pollerPc, state, timeout, fetches, emptyFetches,
                 fetchErrors, fetchIds, lastCid, callbacks, tickerStopped,
                 serverCid, opVars, fetchAt, twoVars>>

NextTimed == Return \/ AdvanceTime \/ PollTick \/ FetchReturn

SpecTimed == InitTimed /\ [][NextTimed]_vars

(***************************************************************************)
(* Two calls of CreateVCItemData with a callback, for the same template,   *)
(* one after the other, each answered with 201 and a new instance id.      *)
(* Every call has its own                                                  *)
(* timeout, ticker and done (locals of lines 175-178) and its own          *)
(* goroutine; the steps are those of CallCreate, Return, Scan, PollTick    *)
(* and FetchReturn on the locals of call i.  A tick is received as soon as *)
(* the ticker of the call sends it.                                        *)
(***************************************************************************)
\* the instance ids the service has given out
Created == {sess[j].id : j \in {j \in Sessions : sess[j].pc # "none"}}

\* what GetVCItemData can give back while the vcCid of the instance is cid
FetchOutcomes(cid) ==
  {[kind |-> GetVCItemData(resp).kind, value |-> GetVCItemData(resp).value] :
     resp \in FetchResponses(cid)}

flatVars == <<callVars, pollVars, tickerStopped, serverCid, opVars, timeVars>>

TwoCall ==
  /\ ~crashed
  /\ \E i \in Sessions :
       /\ sess[i].pc = "none"
       /\ \A j \in Sessions : j < i => sess[j].pc # "none"
       /\ sess' = [sess EXCEPT ![i] =
                    [pc |-> "select", state |-> "Running", timeout |-> Timeout,
                     stopped |-> FALSE, id |-> Cardinality(Created) + 1,
                     template |-> 1, asking |-> 0, asked |-> {}, callbacks |-> <<>>]]
  /\ UNCHANGED <<cidOf, crashed, flatVars>>

TwoReturn ==
  /\ ~crashed
  /\ \E i \in Sessions :
       /\ sess[i].pc # "none"
       /\ ~sess[i].stopped
       /\ sess' = [sess EXCEPT ![i].stopped = StopsTickerOnReturn]
  /\ UNCHANGED <<cidOf, crashed, flatVars>>

\* the holder of instance k scans: the instance gets a vcCid of its own
TwoScan ==
  /\ ~crashed
  /\ \E k \in Created :
       /\ cidOf[k] = ""
       /\ cidOf' = [cidOf EXCEPT ![k] = CidName(k)]
  /\ UNCHANGED <<sess, crashed, flatVars>>

TwoPollTick ==
  /\ ~crashed
  /\ \E i \in Sessions :
       /\ sess[i].pc = "select"
       /\ ~sess[i].stopped
       /\ IF BudgetExhausted(sess[i].timeout)
            THEN sess' = [sess EXCEPT ![i].state = "TimedOut", ![i].pc = PcAfterTimeout]
            ELSE sess' = [sess EXCEPT ![i].timeout = sess[i].timeout - Interval,
                                      ![i].pc = "fetching",
                                      ![i].asking = PollTargetId(sess[i].id, sess[i].template),
                                      ![i].asked = sess[i].asked
                                        \cup {PollTargetId(sess[i].id, sess[i].template)}]
  /\ UNCHANGED <<cidOf, crashed, flatVars>>

TwoFetchReturn ==
  /\ ~crashed
  /\ \E i \in Sessions :
       /\ sess[i].pc = "fetching"
       /\ \E r \in FetchOutcomes(cidOf[sess[i].asking]) :
              CASE r.kind = "panic" ->
                     /\ crashed' = TRUE
                     /\ sess' = sess
                [] r.kind = "err" ->
                     /\ sess' = [sess EXCEPT ![i].pc = PcAfterError, ![i].state = "Failed"]
                     /\ crashed' = crashed
                [] r.kind = "ok" /\ r.value = "" ->
                     /\ sess' = [sess EXCEPT ![i].pc = "select"]
                     /\ crashed' = crashed
                [] r.kind = "ok" /\ r.value # "" ->
                     /\ sess' = [sess EXCEPT ![i].pc = PcAfterCompletion,
                                              ![i].state = "Activated",
                                              ![i].callbacks = Append(sess[i].callbacks,
                                                                      CompletionArg(r.value))]
                     /\ crashed' = crashed
  /\ UNCHANGED <<cidOf, flatVars>>

NextTwo == TwoCall \/ TwoReturn \/ TwoScan \/ TwoPollTick \/ TwoFetchReturn

SpecTwo == Init /\ [][NextTwo]_vars

(***************************************************************************)
(* The three operations called directly, one call on one reply.            *)
(***************************************************************************)
Ops == {"CreateVCItem", "CreateVCItemData", "GetVCItemData"}

\* the bytes that follow a signature in the covers of the model
TailBytes == {0, 77, 255}

RECURSIVE Tails(_)
Tails(n) ==
  IF n = 0 THEN {<<>>}
  ELSE Tails(n - 1) \cup {Append(t, b) : t \in Tails(n - 1), b \in TailBytes}

\* covers: none, empty, jpeg and png files, a gif, a bmp, a jpeg signature
\* cut short, text and binary data
Covers ==
  {NilCover, Cover(<<>>), Cover(Gif89Sig \o <<0>>), Cover(BmpSig \o <<0, 0>>),
   Cover(<<255, 216>>), Cover(<<104, 105>>), Cover(<<0, 1, 2>>)}
  \cup {Cover(sig \o t) : sig \in {JpegSig, PngSig}, t \in Tails(MaxTail)}

OpResponses ==
  {NetError}
  \cup {HttpResponse(st, Body(sh, JAbsent, JAbsent, JAbsent)) :
          st \in Statuses, sh \in {"invalid", "array", "null"}}
  \cup {HttpResponse(st, Body("object", d, c, id)) :
          st \in Statuses, d \in Details,
          c \in {JAbsent, JNull, JStr(CidName(1)), JNum(1), JObj},
          id \in {JAbsent, JNum(MaxId), JStr("7")}}

\* replies to the POST of CreateVCItem
CoverResponses ==
  {NetError}
  \cup {HttpResponse(st, Body(sh, JAbsent, JAbsent, JAbsent)) :
          st \in Statuses, sh \in {"invalid", "array", "null"}}
  \cup {HttpResponse(st, Body("object", d, JAbsent, JAbsent)) :
          st \in Statuses, d \in Details}

InitOps ==
  /\ op \in Ops
  /\ opResp \in (IF op = "CreateVCItem" THEN CoverResponses ELSE OpResponses)
  /\ opResult = NoResult
  /\ opCover \in (IF op = "CreateVCItem" THEN Covers ELSE {NilCover})
  /\ opPayload = NoCoverKey
  /\ now = 0
  /\ fetchAt = 0
  /\ sess = [i \in Sessions |-> NoSession]
  /\ cidOf = [k \in Sessions |-> ""]
  /\ crashed = FALSE
  /\ callerPc = "idle"
  /\ completionNil \in (IF op = "CreateVCItemData" THEN BOOLEAN ELSE {TRUE})
  /\ callResp = NoResp
  /\ vcID = 0
  /\ recordID = 0
  /\ ret = NoResult
  /\ pollerPc = "none"
  /\ state = "None"
  /\ timeout = 0
  /\ tickerStopped = FALSE
  /\ tickPending = 0
  /\ serverCid = ""
  /\ fetches = 0
  /\ emptyFetches = 0
  /\ fetchErrors = 0
  /\ fetchIds = {}
  /\ lastCid = ""
  /\ callbacks = <<>>

\* the status code each operation takes for success (lines 112, 164, 239)
ExpectedStatus(o) == IF o = "GetVCItemData" THEN StatusOK ELSE StatusCreated

\* the operation runs to its return; CreateVCItemData starts its goroutine
\* on the way as in CallCreate
RunOp ==
  /\ op \in Ops
  /\ opResult.kind = "none"
  /\ opResult' = CASE op = "CreateVCItem" -> CreateVCItem(opResp)
                   [] op = "CreateVCItemData" -> CreateVCItemDataResult(opResp)
                   [] op = "GetVCItemData" -> GetVCItemData(opResp)
  /\ IF op = "CreateVCItemData" /\ StartsPoller(CreateVCItemDataResult(opResp), completionNil)
       THEN /\ timeout' = Timeout
            /\ pollerPc' = "select"
            /\ state' = "Running"
       ELSE UNCHANGED <<timeout, pollerPc, state>>
  /\ opPayload' = (IF op = "CreateVCItem" THEN CoverPayload(opCover) ELSE opPayload)
  /\ UNCHANGED <<callVars, tickPending, fetches, emptyFetches, fetchErrors,
                 fetchIds, lastCid, callbacks, tickerStopped, serverCid, op,
                 opResp, opCover, timeVars, twoVars>>

NextOps == RunOp

SpecOps == InitOps /\ [][NextOps]_vars

(***************************************************************************)
(* Properties.                                                             *)
(***************************************************************************)
\* the call of SpecOps has returned on a reply whose body decoded and whose
\* status code is not the one the operation expects
StatusRejected ==
  /\ opResult.kind # "none"
  /\ opResp.net = "ok"
  /\ DecodeMapOk(opResp.body)
  /\ opResp.status # ExpectedStatus(op)

DetailOf(resp) == IF resp.body.shape = "object" THEN resp.body.detail ELSE JAbsent

\* the result carries no success value: no record, no activation id
NoSuccessValue ==
  /\ opResult.kind = "err"
  /\ op = "CreateVCItemData" => opResult.id = 0
  /\ op = "GetVCItemData" => opResult.value = ""

PrintsVerbatim(v) == v.t = "str" \/ (v.t = "num" /\ v.n < 1000000)

Terminal == {"Activated", "TimedOut", "Failed"}

PollerStarted == pollerPc # "none"

\* the number of polls the budget pays for
MaxFetches == Timeout \div Interval

\* C1 as stated: every poller that was started eventually reaches one of
\* the terminal states Activated, TimedOut or Failed (given fair ticks and
\* status fetches that return; a fetch that panics does not return).
C1_EventuallyTerminal == PollerStarted ~> (state \in Terminal \/ Crashed)

\* C2: the completion callback is invoked at most once, only after a
\* GetVCItemData call of the session returned a non-empty id, and with
\* exactly that id.
C2_CallbackOnceWithFetchedId ==
  /\ Len(callbacks) <= 1
  /\ callbacks # <<>> =>
       /\ lastCid # ""
       /\ callbacks = <<lastCid>>
       /\ fetches = emptyFetches + 1
       /\ state = "Activated"
  /\ lastCid # "" => callbacks = <<lastCid>>

C2_Witness ==
  /\ callbacks = <<CidName(2)>>
  /\ lastCid = CidName(2)
  /\ fetches = 3

\* C3 as stated: once the service holds the activation id and the budget
\* still pays for a poll, the poller invokes the callback exactly once with
\* that id, on its k-th fetch after k-1 empty ones (unless a fetch fails).
C3_ActivationDelivered ==
  (state = "Running" /\ serverCid # "" /\ (timeout > 0 \/ pollerPc = "fetching"))
    ~> \/ Crashed
       \/ state = "Failed"
       \/ /\ state = "Activated"
          /\ callbacks = <<serverCid>>
          /\ fetches = emptyFetches + 1
          /\ fetches <= MaxFetches

\* C4 as stated: if every status fetch returns the empty id, the poller
\* makes exactly 60 fetches, then is TimedOut, and never calls the callback.
C4_SixtyFetchesThenTimedOut ==
  PollerStarted
    ~> \/ Crashed
       \/ state \in {"Failed", "Activated"}
       \/ /\ state = "TimedOut"
          /\ fetches = MaxFetches
          /\ emptyFetches = MaxFetches
          /\ callbacks = <<>>

\* C5: the first status fetch that returns an error ends the session in
\* Failed: it is the last fetch, there is no retry and the callback is
\* never invoked, whatever the service holds afterwards.
C5_FirstErrorEndsSession ==
  /\ fetchErrors <= 1
  /\ fetchErrors = 1 =>
       /\ state = "Failed"
       /\ pollerPc = "sendDone"
       /\ fetches = emptyFetches + 1
       /\ callbacks = <<>>
       /\ lastCid = ""

\* the second fetch failed, the holder has scanned and a tick is waiting
C5_Witness ==
  /\ fetchErrors = 1
  /\ fetches = 2
  /\ serverCid # ""
  /\ tickPending = 1
  /\ ~tickerStopped

\* C6: terminal states are absorbing: a session that is Activated, TimedOut
\* or Failed stays so, makes no further GetVCItemData call and no further
\* callback invocation.
C6_TerminalAbsorbing ==
  [][(state \in Terminal) =>
       (/\ state' = state
        /\ fetches' = fetches
        /\ fetchIds' = fetchIds
        /\ callbacks' = callbacks
        /\ pollerPc' \notin {"select", "fetching"})]_vars

\* a tick arrives after the activation, and is not served
C6_Witness ==
  /\ state = "Activated"
  /\ tickPending = 1
  /\ fetches = 2
  /\ callerPc = "returned"

\* C7 as stated: CreateVCItemData returns the record without waiting for
\* the poller, and after that return the poller goes on as an independent
\* task: while it is Running its ticker still delivers ticks.  (The order
\* of the return and the first fetch is a matter of timing, which the
\* untimed model leaves open.)
C7_PollerOutlivesCall ==
  (callerPc = "returned" /\ PollerStarted) =>
    /\ ret.kind = "ok"
    /\ state = "Running" => ~tickerStopped

\* the reply of the service made the call succeed
CallSucceeded ==
  /\ callResp.net = "ok"
  /\ callResp.status = StatusCreated
  /\ callResp.body.shape \in {"null", "object"}
  /\ callResp.body.shape = "object" => callResp.body.id.t \in {"absent", "null", "num"}

\* C8: a poller is started if and only if the call succeeded (201 and a
\* body that decodes into the record) and completion is non-nil; without a
\* poller there is never a status fetch or a callback; the poller fetches
\* only the id of the record that is returned.
C8_PollerIffSuccessAndCallback ==
  /\ callerPc # "idle" => (PollerStarted <=> (CallSucceeded /\ ~completionNil))
  /\ callerPc = "idle" => ~PollerStarted
  /\ ~PollerStarted => (fetches = 0 /\ fetchIds = {} /\ callbacks = <<>> /\ state = "None")
  /\ callerPc = "returned" => (ret.kind = "ok" <=> CallSucceeded)
  /\ callerPc = "returned" => fetchIds \subseteq {ret.id}
  /\ fetchIds \subseteq {recordID}
  /\ fetches > 0 => fetchIds = {recordID}

C8_Witness ==
  /\ callerPc = "returned"
  /\ ret.kind = "ok"
  /\ ret.id = 2
  /\ vcID = 1
  /\ fetchIds = {2}
  /\ fetches = 2

\* C9 as stated: a failure of a status fetch inside the session, whatever
\* its cause, ends the session in Failed and is logged; it never crashes
\* the process and never reaches the caller of CreateVCItemData.
C9_FetchFailureContained ==
  /\ ~Crashed
  /\ fetchErrors > 0 => state = "Failed"
  /\ (callerPc = "returned" /\ PollerStarted) => ret.kind = "ok"

(***************************************************************************)
(* Properties of the three operations, continued.                          *)
(***************************************************************************)
\* what %v prints for one member of the decoded envelope
MemberText(key, v) ==
  IF v.t = "absent" THEN "" ELSE " " \o key \o ":" \o SprintV(DecodeValue(v))

\* what %v prints for the whole decoded envelope (a map)
EnvelopeText(body) ==
  IF body.shape = "object"
    THEN "map[" \o MemberText("detail", body.detail) \o MemberText("id", body.id)
         \o MemberText("vcCid", body.vcCid) \o " ]"
    ELSE "map[]"

\* C11 as stated: with an unexpected status code and no detail member in
\* the decoded envelope, the returned error carries the whole envelope.
C11_AsStated ==
  (StatusRejected /\ DetailOf(opResp).t = "absent") =>
    /\ opResult.kind = "err"
    /\ Contains(opResult.msg, EnvelopeText(opResp.body))

\* C11 amended: with an unexpected status code and no detail member, the
\* returned error is "unexpected response code: <nil>": it carries nothing
\* of the envelope (the code only logs the envelope).
C11_NoDetailGivesNil ==
  (StatusRejected /\ DetailOf(opResp).t = "absent") =>
    /\ NoSuccessValue
    /\ opResult.msg = <<"unexpected response code: ", "<nil>">>
    /\ ~Contains(opResult.msg, EnvelopeText(opResp.body))

C11_Witness ==
  /\ StatusRejected
  /\ op = "CreateVCItemData"
  /\ opResp.body.shape = "object"
  /\ opResp.body.detail = JAbsent
  /\ opResp.body.vcCid = JStr(CidName(1))
  /\ opResult.msg = <<"unexpected response code: ", "<nil>">>

\* C13: GetVCItemData on a 200 reply whose decoded body has no vcCid, or a
\* null one, returns the empty result and no error; with a vcCid string it
\* returns that string and no error.
C13_FetchResult ==
  (/\ op = "GetVCItemData"
   /\ opResult.kind # "none"
   /\ opResp.net = "ok"
   /\ opResp.status = StatusOK
   /\ DecodeMapOk(opResp.body)) =>
    LET c == IF opResp.body.shape = "object" THEN opResp.body.vcCid ELSE JAbsent IN
      /\ c.t \in {"absent", "null"} => (opResult.kind = "ok" /\ opResult.value = "" /\ opResult.msg = NoMsg)
      /\ c.t = "str" => (opResult.kind = "ok" /\ opResult.value = c.s /\ opResult.msg = NoMsg)

\* a 200 reply with "vcCid": null
C13_Witness ==
  /\ op = "GetVCItemData"
  /\ opResp.net = "ok"
  /\ opResp.status = StatusOK
  /\ opResp.body.shape = "object"
  /\ opResp.body.vcCid = JNull
  /\ opResult.kind = "ok"
  /\ opResult.value = ""

\* C19 as stated: GetVCItemData never panics: on every 200 reply whose body
\* decodes as an object it returns a string or an error, whatever the JSON
\* type of vcCid.
C19_NeverPanics ==
  (op = "GetVCItemData" /\ opResult.kind # "none") => opResult.kind \in {"ok", "err"}

\* C12: the envelope is decoded before the status code is looked at: on a
\* body that does not decode, each operation returns the decode error, not
\* the status error, whatever the status code is, and CreateVCItemData
\* starts no poller.
C12_DecodeErrorFirst ==
  (/\ opResult.kind # "none"
   /\ opResp.net = "ok"
   /\ opResp.body.shape \in {"invalid", "array"}) =>
    /\ NoSuccessValue
    /\ opResult.msg[1] = (IF op = "CreateVCItemData"
                            THEN "failed to unmarshal response body: "
                            ELSE "failed to decode response body: ")
    /\ opResult.msg[1] # "unexpected response code: "
    /\ ~PollerStarted

\* CreateVCItemData with a callback on a 201 whose body is malformed
C12_Witness ==
  /\ op = "CreateVCItemData"
  /\ ~completionNil
  /\ opResp.net = "ok"
  /\ opResp.status = StatusCreated
  /\ opResp.body.shape = "invalid"
  /\ opResult.kind = "err"
  /\ ~PollerStarted

(***************************************************************************)
(* Properties of the polling session, continued.                           *)
(***************************************************************************)
\* C17: the remaining budget is a multiple of 5 in 0..300, the number of
\* status fetches made so far is (300 - budget) / 5, at most 60, and a tick
\* that finds the budget at 0 makes no fetch but times the session out.
C17_BudgetInvariant ==
  /\ ~PollerStarted => fetches = 0
  /\ PollerStarted =>
       /\ timeout \in 0..Timeout
       /\ timeout % Interval = 0
       /\ fetches * Interval = Timeout - timeout
       /\ fetches <= MaxFetches
       /\ state = "TimedOut" => (timeout = 0 /\ fetches = MaxFetches)
       /\ (timeout = 0 /\ pollerPc = "select") => emptyFetches = MaxFetches

\* the 61st tick found the budget at 0
C17_Witness ==
  /\ state = "TimedOut"
  /\ timeout = 0
  /\ fetches = MaxFetches
  /\ pollerPc = "returned"

\* C18 as stated: the goroutine terminates on every exit path: once the
\* session is Activated, Failed or TimedOut the goroutine returns.
C18_GoroutineReturns == (state \in Terminal) ~> (pollerPc = "returned")

(***************************************************************************)
(* Properties of the cover of CreateVCItem.                                *)
(***************************************************************************)
\* the value of a base64 character
Base64Value(c) == CHOOSE v \in 0..63 : Base64Alphabet[v + 1] = c

\* the bytes a padded base64 text stands for
RECURSIVE Base64Decode(_)
Base64Decode(t) ==
  IF Len(t) < 4 THEN <<>>
  ELSE LET a == Base64Value(t[1])
           b == Base64Value(t[2])
       IN IF t[3] = "=" THEN <<a * 4 + b \div 16>>
          ELSE IF t[4] = "="
            THEN <<a * 4 + b \div 16, (b % 16) * 16 + Base64Value(t[3]) \div 4>>
          ELSE <<a * 4 + b \div 16,
                 (b % 16) * 16 + Base64Value(t[3]) \div 4,
                 (Base64Value(t[3]) % 4) * 64 + Base64Value(t[4])>>
               \o Base64Decode(SubSeq(t, 5, Len(t)))

\* C14: the payload of CreateVCItem has a cover key if and only if a cover
\* was supplied and sniffs as JPEG or PNG; its value is then
\* data:image/<type>;base64, followed by the base64 text of exactly the
\* bytes supplied; a cover of another type is left out and the call fails
\* only for what the reply of the service is.
C14_CoverKey ==
  (op = "CreateVCItem" /\ opResult.kind # "none") =>
    LET sniffed == DetectContentType(opCover.bytes) IN
      /\ opPayload.present <=> (~opCover.nil /\ sniffed \in {"image/jpeg", "image/png"})
      /\ opPayload.present =>
           /\ opPayload.prefix \in {"data:image/jpeg;base64,", "data:image/png;base64,"}
           /\ opPayload.prefix = "data:" \o sniffed \o ";base64,"
           /\ Len(opPayload.data) = 4 * ((Len(opCover.bytes) + 2) \div 3)
           /\ Base64Decode(opPayload.data) = opCover.bytes
      /\ opResult.kind = "ok" <=>
           (/\ opResp.net = "ok"
            /\ opResp.body.shape \in {"null", "object"}
            /\ opResp.status = StatusCreated)

\* a JPEG cover of four bytes, sent with padded base64, and a 201 reply
C14_Witness ==
  /\ op = "CreateVCItem"
  /\ opCover = Cover(<<255, 216, 255, 0>>)
  /\ opPayload.present
  /\ opPayload.prefix = "data:image/jpeg;base64,"
  /\ opPayload.data = <<"/", "9", "j", "/", "A", "A", "=", "=">>
  /\ opResult.kind = "ok"

(***************************************************************************)
(* Properties of the session with a clock.                                 *)
(***************************************************************************)
\* C15 as stated: the poller enforces a hard ceiling on the polling time:
\* no status fetch starts more than 300 seconds after the session was
\* started, and after 300 seconds the session is no longer Running, also
\* when status fetches take longer than one tick interval.
C15_HardCeiling ==
  /\ fetchAt <= Timeout
  /\ now > Timeout => state # "Running"

====
